---- MODULE Spec2Model ----
(***************************************************************************)
(* Asset-key cache and URL signing of sign-url.js.                         *)
(*                                                                         *)
(* The module-level Map assetKeyCache, the requests to the asset_keys      *)
(* endpoint that are in flight, and the callers that await a cache item's  *)
(* promise.  JavaScript runs createCachedAssetKey to completion, so a call *)
(* is one action; a response of the endpoint, the .catch handler of a      *)
(* failed request and the continuation of an awaiting caller are separate  *)
(* turns of the event loop and are separate actions.                       *)
(*                                                                         *)
(* Date.now() is taken not to go backwards.  The access token is not part  *)
(* of the cache key and plays no part in what the cache does; it is left   *)
(* out of the calls.                                                       *)
(***************************************************************************)
EXTENDS Integers, Sequences, FiniteSets, TLC

VARIABLES
    now,            \* Date.now(), in ms
    assetKeyCache,  \* the Map: cache key -> id of the installed cache item, NoItem if absent
    items,          \* every cache item ever created, with the request its promise wraps
    calls,          \* every createCachedAssetKey call made, with what it was handed
    runs,           \* the generateSignedUrl invocations made on their own, with their results
    reqs            \* the requests the sign-and-redirect route has taken, with their responses

vars == <<now, assetKeyCache, items, calls, runs, reqs>>

----------------------------------------------------------------------------
(* Bounds of the model *)

MaxCalls == 2
MaxTicks == 1

(* Program constants *)

MaxValidityMs == 48 * 60 * 60 * 1000
MsPerSecond == 1000

(* Inputs *)

StartMs == 1500                 \* clock value when the module is loaded
TickMs == 1000                  \* the clock steps explored
\* scope tuples <<host, spaceId, environmentId>> the callers use
Scopes == {<<"cdn", "sp1", "b">>, <<"cdn", "sp1:a", "b">>, <<"cdn", "sp1", "a:b">>}
\* a caller asks for now + one of these
MinOffsets == {1000, MaxValidityMs, MaxValidityMs + 1}
Statuses == {201, 403}    \* response statuses of the asset_keys endpoint

\* URLs to sign.  A URL string is given by its parts: origin, path and the
\* query as written, a list of name=value pairs.
Origins == {"https://cdn.example.com"}
Pathnames == {"/a/b.jpg", "/c.png"}
Queries ==
    { << >>,
      << <<"w", "200">> >>,
      << <<"token", "old">>, <<"w", "a%20b">>, <<"policy", "old">>,
         <<"token", "old">>, <<"w", "a+b">>, <<"policy", "200">> >> }
Urls == [origin : Origins, pathname : Pathnames, query : Queries]
\* the URL signUrl is called with in the cache's behaviours
CallUrl == [origin |-> "https://cdn.example.com", pathname |-> "/a/b.jpg",
            query |-> << <<"w", "200">> >>]
\* server.js: the configuration read from the environment, and the requests
CONTENTFUL_API_HOST == "cdn"
SPACE_ID == "sp1"
ENVIRONMENT_ID == "b"
URL_LIFETIME == 10 * 1000
Subdomains == {"images"}
RequestSpaceIds == {"sp1", "sp2"}
RequestRests == {"/a.jpg"}
\* req.query: each key once, with the values it had in the query string
RequestQueries == { << >>, << <<"w", <<"200", "a b">> >>, <<"h", <<"200">> >> >> }

\* expiresAtMs given to generateSignedUrl on its own
ExpiresAtInputs == {0, 6500}
\* asset keys given to generateSignedUrl on its own
AssetKeys == {[policy |-> 1, secret |-> 1], [policy |-> 2, secret |-> 2]}

NoItem == 0

----------------------------------------------------------------------------
(* sign-url.js, createCachedAssetKey and createAssetKey, piece by piece *)

\* the template string of the cache key
CacheKey(host, spaceId, environmentId) ==
    host \o ":" \o spaceId \o ":" \o environmentId

CacheKeys == {CacheKey(s[1], s[2], s[3]) : s \in Scopes}

\* Each piece is preceded by variants of it (suffix _...), slips the code could
\* have made; the properties further down tell the code from them.
NeedsFetch_NoStaleCheck(cacheItem, minExpiresAtMs) == cacheItem = NoItem

NeedsFetch_Lte(cacheItem, minExpiresAtMs) ==
    \/ cacheItem = NoItem
    \/ items[cacheItem].expiresAtMs <= minExpiresAtMs

NeedsFetch_Always(cacheItem, minExpiresAtMs) == TRUE

\* `!cacheItem || cacheItem.expiresAtMs < minExpiresAtMs`, cacheItem an item id
NeedsFetch(cacheItem, minExpiresAtMs) ==
    \/ cacheItem = NoItem
    \/ items[cacheItem].expiresAtMs < minExpiresAtMs

\* `Date.now() + 48 * 60 * 60 * 1000`
FreshExpiresAtMs(nowMs) == nowMs + MaxValidityMs

TooFarInFuture_Never(minExpiresAtMs, expiresAtMs) == FALSE

\* `minExpiresAtMs > expiresAtMs`
TooFarInFuture(minExpiresAtMs, expiresAtMs) == minExpiresAtMs > expiresAtMs

RequestedExpiresAtMs_Min(expiresAtMs, minExpiresAtMs) == minExpiresAtMs

\* the expiry createCachedAssetKey passes to createAssetKey
RequestedExpiresAtMs(expiresAtMs, minExpiresAtMs) == expiresAtMs

\* `Math.floor(expiresAtMs / 1000)`, the expiresAt of the request body
ExpiresAtSeconds(expiresAtMs) == expiresAtMs \div MsPerSecond

\* `response.ok`
ResponseOk(status) == status \in 200..299

IsMostRecentFetch_Always(curCacheItem, installedItem, priorItem) == TRUE

IsMostRecentFetch_Never(curCacheItem, installedItem, priorItem) == FALSE

\* the comparison the handler would make had line 109 declared a new variable:
\* against the item the call found at line 85
IsMostRecentFetch_Found(curCacheItem, installedItem, priorItem) ==
    curCacheItem = priorItem

\* `curCacheItem === cacheItem` in the .catch handler; cacheItem is the closure
\* variable, which line 109 has reassigned to the item this call installed
IsMostRecentFetch(curCacheItem, installedItem, priorItem) ==
    curCacheItem = installedItem

CatchHandlerSwallows == "resolved"

\* `return Promise.reject(err)`: how the .catch handler settles the item's promise
CatchHandlerReturns == "rejected"

----------------------------------------------------------------------------
(* sign-url.js, generateSignedToken and generateSignedUrl *)

\* application/x-www-form-urlencoded, as `new URL(url).searchParams` decodes a
\* value and as `parsedUrl.toString()` writes it once searchParams is changed
FormDecode(raw) == IF raw \in {"a%20b", "a+b"} THEN "a b" ELSE raw
FormEncode(value) == IF value = "a b" THEN "a+b" ELSE value

ParseQuery(query) ==
    [i \in DOMAIN query |-> <<query[i][1], FormDecode(query[i][2])>>]

SerializeQuery(searchParams) ==
    [i \in DOMAIN searchParams |->
        <<searchParams[i][1], FormEncode(searchParams[i][2])>>]

\* the query as text from its pair i on, "w=200&h=1"
RECURSIVE QueryText(_, _)
QueryText(query, i) ==
    IF i > Len(query) THEN ""
    ELSE query[i][1] \o "=" \o query[i][2]
            \o (IF i = Len(query) THEN "" ELSE "&" \o QueryText(query, i + 1))

Href(url) ==
    url.origin \o url.pathname
        \o (IF url.query = << >> THEN "" ELSE "?" \o QueryText(url.query, 1))

\* `new URL(url)`
ParseUrl(url) ==
    [origin |-> url.origin, pathname |-> url.pathname, href |-> Href(url),
     searchParams |-> ParseQuery(url.query)]

\* F applied to the value of v
ApplyTo(v, F(_)) == CHOOSE result \in {F(x) : x \in {v}} : TRUE

\* `searchParams.append(name, value)`
SearchParamsSet_Append(searchParams, name, value) ==
    Append(searchParams, <<name, value>>)

\* `searchParams.set(name, value)`: the first pair of that name gets the value
\* and the others of that name are removed; without one, the pair is appended
SearchParamsSet(searchParams, name, value) ==
    LET SetIn(list) ==
            LET Named == {i \in DOMAIN list : list[i][1] = name}
                first == CHOOSE i \in Named : \A j \in Named : i <= j
                RECURSIVE Rebuild(_)
                Rebuild(i) ==
                    IF i > Len(list) THEN << >>
                    ELSE (IF i = first THEN << <<name, value>> >>
                          ELSE IF i \in Named THEN << >>
                          ELSE << list[i] >>) \o Rebuild(i + 1)
            IN  IF Named = {} THEN Append(list, <<name, value>>) ELSE Rebuild(1)
    IN  ApplyTo(searchParams, SetIn)

\* the expiry left in milliseconds
TokenExp_Ms(expiresAtMs) == IF expiresAtMs # 0 THEN << expiresAtMs >> ELSE << >>

\* `expiresAtMs ? Math.floor(expiresAtMs / 1000) : undefined`: << >> is undefined
TokenExp(expiresAtMs) ==
    IF expiresAtMs # 0 THEN << expiresAtMs \div MsPerSecond >> ELSE << >>

\* exp taken as a lifetime counted from the clock
JwtPayload_ExpiresIn(sub, exp, nowMs) ==
    [sub |-> sub,
     exp |-> IF exp = << >> THEN << >> ELSE << nowMs \div MsPerSecond + exp[1] >>,
     iat |-> << nowMs \div MsPerSecond >>]

\* the payload jwt.sign signs: the claims it is given and, as no noTimestamp
\* option is passed, jsonwebtoken's iat, the clock in seconds
JwtPayload(sub, exp, nowMs) ==
    [sub |-> sub, exp |-> exp, iat |-> << nowMs \div MsPerSecond >>]

\* `jwt.sign({sub, exp}, secret, {algorithm: "HS256"})`: the results it can
\* have.  The token is given by what it signs and the key; its text is a
\* function of these.  With exp undefined, jsonwebtoken either rejects the
\* payload or, in versions that do not validate it, signs it without exp.
JwtSign(sub, exp, secret) ==
    LET token == [threw |-> FALSE, alg |-> "HS256",
                  payload |-> JwtPayload(sub, exp, now), key |-> secret]
    IN  IF exp = << >> THEN {token, [token EXCEPT !.threw = TRUE]} ELSE {token}

\* the compact text of a token
JwtText(token) ==
    "jwt." \o token.alg \o "." \o ToString(token.payload) \o "." \o ToString(token.key)

generateSignedToken(secret, urlWithoutQueryParams, expiresAtMs) ==
    JwtSign(urlWithoutQueryParams, TokenExp(expiresAtMs), secret)

\* the whole URL, query included
UrlWithoutQueryParams_Href(parsedUrl) == parsedUrl.href

\* `parsedUrl.origin + parsedUrl.pathname`
UrlWithoutQueryParams(parsedUrl) == parsedUrl.origin \o parsedUrl.pathname

\* generateSignedUrl(policy, secret, url, expiresAtMs): its possible results,
\* each with the token it signed
generateSignedUrl(policy, secret, url, expiresAtMs) ==
    LET Signed(parsedUrl, token) ==
            LET withToken == SearchParamsSet(parsedUrl.searchParams, "token",
                                             JwtText(token))
                withPolicy == SearchParamsSet(withToken, "policy", ToString(policy))
            IN  [threw |-> token.threw, token |-> token,
                 url |-> IF token.threw THEN url
                         ELSE [origin |-> parsedUrl.origin,
                               pathname |-> parsedUrl.pathname,
                               query |-> SerializeQuery(withPolicy)]]
        SignedUrls(parsedUrl) ==
            {Signed(parsedUrl, token) :
                token \in generateSignedToken(secret, UrlWithoutQueryParams(parsedUrl),
                                              expiresAtMs)}
    IN  ApplyTo(ParseUrl(url), SignedUrls)

----------------------------------------------------------------------------

Init ==
    /\ now = StartMs
    /\ assetKeyCache = [k \in CacheKeys |-> NoItem]
    /\ items = << >>
    /\ calls = << >>
    /\ runs = << >>
    /\ reqs = << >>

\* The clock moves on between turns of the event loop.
Tick ==
    /\ now < StartMs + MaxTicks * TickMs
    /\ now' = now + TickMs
    /\ UNCHANGED <<assetKeyCache, items, calls, runs, reqs>>

\* overwriting the object the call found instead of making a new one
Installed_InPlace(cacheKey, cacheItem, item) ==
    IF cacheItem = NoItem
    THEN [items |-> Append(items, item),
          cache |-> [assetKeyCache EXCEPT ![cacheKey] = Len(items) + 1],
          id |-> Len(items) + 1]
    ELSE [items |-> [items EXCEPT ![cacheItem] = item],
          cache |-> assetKeyCache,
          id |-> cacheItem]

\* `cacheItem = { expiresAtMs, promise }; assetKeyCache.set(cacheKey, cacheItem)`:
\* a new object, put in place of whatever the key held
Installed(cacheKey, cacheItem, item) ==
    [items |-> Append(items, item),
     cache |-> [assetKeyCache EXCEPT ![cacheKey] = Len(items) + 1],
     id |-> Len(items) + 1]

\* One call of createCachedAssetKey(host, accessToken, spaceId, environmentId,
\* minExpiresAtMs), start to return.  The caller, signUrl, awaits the promise it
\* is handed at once, so a call that returns leaves a waiting caller.
createCachedAssetKey(host, spaceId, environmentId, minExpiresAtMs) ==
    LET cacheKey == CacheKey(host, spaceId, environmentId)
        cacheItem == assetKeyCache[cacheKey]
        expiresAtMs == FreshExpiresAtMs(now)
        installed == Installed(cacheKey, cacheItem,
                        [host |-> host, spaceId |-> spaceId,
                         environmentId |-> environmentId, cacheKey |-> cacheKey,
                         expiresAtMs |-> expiresAtMs,
                         expiresAt |-> ExpiresAtSeconds(
                             RequestedExpiresAtMs(expiresAtMs, minExpiresAtMs)),
                         minExpiresAtMs |-> minExpiresAtMs,
                         createdAt |-> now, prior |-> cacheItem,
                         state |-> "pending", status |-> 0,
                         policy |-> 0, secret |-> 0])
        call == [host |-> host, spaceId |-> spaceId, environmentId |-> environmentId,
                 minExpiresAtMs |-> minExpiresAtMs,
                 started |-> FALSE, item |-> NoItem, state |-> "waiting",
                 policy |-> 0, secret |-> 0, error |-> <<>>, signed |-> <<>>]
    IN  IF NeedsFetch(cacheItem, minExpiresAtMs)
        THEN IF TooFarInFuture(minExpiresAtMs, expiresAtMs)
             THEN /\ calls' = Append(calls, [call EXCEPT !.state = "threw"])
                  /\ UNCHANGED <<assetKeyCache, items>>
             ELSE /\ items' = installed.items
                  /\ assetKeyCache' = installed.cache
                  /\ calls' = Append(calls,
                        [call EXCEPT !.started = TRUE, !.item = installed.id])
        ELSE /\ calls' = Append(calls, [call EXCEPT !.item = cacheItem])
             /\ UNCHANGED <<assetKeyCache, items>>

Call ==
    /\ Len(calls) < MaxCalls
    /\ \E scope \in Scopes, offset \in MinOffsets :
            createCachedAssetKey(scope[1], scope[2], scope[3], now + offset)
    /\ UNCHANGED <<now, runs, reqs>>

\* The endpoint answers the request of item i.  With an ok status the promise
\* of createAssetKey resolves with the response's JSON and the item's promise
\* (the .catch promise) resolves with it.  Otherwise createAssetKey throws and
\* the .catch handler is queued.
Respond(i) ==
    /\ i \in DOMAIN items
    /\ items[i].state = "pending"
    /\ \E status \in Statuses :
        items' = [items EXCEPT ![i] =
            IF ResponseOk(status)
            THEN [@ EXCEPT !.state = "resolved", !.status = status,
                           !.policy = i, !.secret = i]
            ELSE [@ EXCEPT !.state = "failed", !.status = status]]
    /\ UNCHANGED <<now, assetKeyCache, calls, runs, reqs>>

\* The .catch handler of item i's request: clear the cache if this is the most
\* recent fetch, then reject the item's promise with the same error.
CatchHandler(i) ==
    /\ i \in DOMAIN items
    /\ items[i].state = "failed"
    /\ LET cacheKey == items[i].cacheKey
           curCacheItem == assetKeyCache[cacheKey]
       IN  assetKeyCache' =
               IF IsMostRecentFetch(curCacheItem, i, items[i].prior)
               THEN [assetKeyCache EXCEPT ![cacheKey] = NoItem]
               ELSE assetKeyCache
    /\ items' = [items EXCEPT ![i].state = CatchHandlerReturns]
    /\ UNCHANGED <<now, calls, runs, reqs>>

\* only the callers of the item that is still installed are woken
Waiting_InstalledOnly(i) ==
    {c \in DOMAIN calls : /\ calls[c].state = "waiting"
                          /\ calls[c].item = i
                          /\ assetKeyCache[items[i].cacheKey] = i}

\* the callers awaiting the promise of item i
Waiting(i) == {c \in DOMAIN calls : calls[c].state = "waiting" /\ calls[c].item = i}

\* the url signUrl call c was given: the route's, or the one of a direct call
UrlOf(c) ==
    IF \E r \in DOMAIN reqs : reqs[r].call = c
    THEN reqs[CHOOSE r \in DOMAIN reqs : reqs[r].call = c].unsignedUrl
    ELSE CallUrl

\* signUrl's `generateSignedUrl(policy, secret, url, expiresAtMs)` for caller c
\* of item i.  expiresAtMs is later than the clock here, so it is not 0 and
\* the signing has one result.
SignedFor(c, i) ==
    CHOOSE result \in generateSignedUrl(items[i].policy, items[i].secret, UrlOf(c),
                                        calls[c].minExpiresAtMs) : TRUE

\* The promise of item i has settled: the continuations of the callers awaiting
\* it run back to back, in the order they were queued, each to the end of
\* signUrl.
Settle(i) ==
    /\ i \in DOMAIN items
    /\ items[i].state \in {"resolved", "rejected"}
    /\ Waiting(i) # {}
    /\ UNCHANGED <<now, assetKeyCache, items, runs, reqs>>
    /\ calls' = [c \in DOMAIN calls |->
            IF c \notin Waiting(i) THEN calls[c]
            ELSE IF items[i].state = "resolved"
            THEN [calls[c] EXCEPT !.state = "credential",
                                  !.policy = items[i].policy,
                                  !.secret = items[i].secret,
                                  !.signed = SignedFor(c, i)]
            ELSE [calls[c] EXCEPT !.state = "error",
                                  !.error = <<i, items[i].status>>]]

Next ==
    \/ Tick
    \/ Call
    \/ \E i \in DOMAIN items : Respond(i)
    \/ \E i \in DOMAIN items : CatchHandler(i)
    \/ \E i \in DOMAIN items : Settle(i)

Spec == Init /\ [][Next]_vars

\* the jobs of the promise job queue: the .catch handlers that are queued and
\* the continuations of the callers of a settled promise
Jobs == \E i \in DOMAIN items : CatchHandler(i) \/ Settle(i)

\* the answers of the endpoint to the requests in flight
Answers == \E i \in DOMAIN items : Respond(i)

\* The event loop runs the job queue: while a job is queued, a job runs.
FairSpec == Spec /\ WF_vars(Jobs)

\* ... and every request to the endpoint is answered, with success or failure:
\* while a job is queued or a request is in flight, one of them runs.
LiveSpec == Spec /\ WF_vars(Jobs \/ Answers)

----------------------------------------------------------------------------
(* server.js, the sign-and-redirect route *)

\* the loop over Object.entries(req.query): the values of a key with several
\* values are appended, the value of a key with one is set
RECURSIVE CopyQuery(_, _)
CopyQuery(searchParams, query) ==
    IF query = << >> THEN searchParams
    ELSE LET key == Head(query)[1]
             values == Head(query)[2]
             RECURSIVE AppendAll(_, _)
             AppendAll(sp, vs) ==
                IF vs = << >> THEN sp
                ELSE AppendAll(Append(sp, <<key, Head(vs)>>), Tail(vs))
         IN  CopyQuery(IF Len(values) # 1
                       THEN AppendAll(searchParams, values)
                       ELSE SearchParamsSet(searchParams, key, values[1]),
                       Tail(query))

\* `new URL(path, "https://<subdomain>.secure.ctfassets.net")` with the query
\* re-set on it, as `unsignedUrl.toString()` writes it
UnsignedUrl(subdomain, path, query) ==
    [origin |-> "https://" \o subdomain \o ".secure.ctfassets.net",
     pathname |-> path,
     query |-> SerializeQuery(CopyQuery(<< >>, query))]

\* A request arrives on the route and the handler runs up to its first
\* suspension: 404 at once for another space, else the call of signUrl, which
\* runs createCachedAssetKey and awaits.
Request ==
    /\ Len(reqs) < MaxCalls
    /\ \E subdomain \in Subdomains, spaceId \in RequestSpaceIds,
          rest \in RequestRests, query \in RequestQueries :
        LET path == "/" \o spaceId \o rest
            req == [spaceId |-> spaceId, path |-> path, query |-> query,
                    unsignedUrl |-> UnsignedUrl(subdomain, path, query),
                    call |-> 0, responses |-> << >>]
        IN  IF spaceId # SPACE_ID
            THEN /\ reqs' = Append(reqs,
                        [req EXCEPT !.responses = << [status |-> 404, location |-> << >>] >>])
                 /\ UNCHANGED <<assetKeyCache, items, calls>>
            ELSE /\ createCachedAssetKey(CONTENTFUL_API_HOST, SPACE_ID, ENVIRONMENT_ID,
                                         now + URL_LIFETIME)
                 /\ reqs' = Append(reqs, [req EXCEPT !.call = Len(calls) + 1])
    /\ UNCHANGED <<now, runs>>

ReplyStatus_AlwaysRedirect(callState) == 302

\* the handler after `await signUrl(...)`: res.redirect, or the catch block
ReplyStatus(callState) == IF callState = "credential" THEN 302 ELSE 500

\* signUrl has settled for request r and the handler goes on to respond
Reply(r) ==
    /\ r \in DOMAIN reqs
    /\ reqs[r].call # 0
    /\ reqs[r].responses = << >>
    /\ calls[reqs[r].call].state # "waiting"
    /\ LET call == calls[reqs[r].call]
           status == ReplyStatus(call.state)
       IN  reqs' = [reqs EXCEPT ![r].responses = Append(@,
                [status |-> status,
                 location |-> IF status = 302 /\ call.state = "credential"
                              THEN << call.signed.url >> ELSE << >>])]
    /\ UNCHANGED <<now, assetKeyCache, items, calls, runs>>

RouteNext ==
    \/ Tick
    \/ Request
    \/ \E i \in DOMAIN items : Respond(i)
    \/ \E i \in DOMAIN items : CatchHandler(i)
    \/ \E i \in DOMAIN items : Settle(i)
    \/ \E r \in DOMAIN reqs : Reply(r)

\* The endpoint answers every request and no queued job is left unrun.
RouteSpec ==
    /\ Init /\ [][RouteNext]_vars
    /\ WF_vars(Answers)
    /\ WF_vars(Jobs \/ \E r \in DOMAIN reqs : Reply(r))

\* generateSignedUrl called on its own, with any asset key, URL and expiry
GenerateSignedUrl ==
    /\ Len(runs) < MaxCalls
    /\ \E key \in AssetKeys, url \in Urls, expiresAtMs \in ExpiresAtInputs :
        \E result \in generateSignedUrl(key.policy, key.secret, url, expiresAtMs) :
            runs' = Append(runs,
                [policy |-> key.policy, secret |-> key.secret, url |-> url,
                 expiresAtMs |-> expiresAtMs, at |-> now,
                 threw |-> result.threw, token |-> result.token,
                 signedUrl |-> result.url])
    /\ UNCHANGED <<now, assetKeyCache, items, calls, reqs>>

SignNext == Tick \/ GenerateSignedUrl

SignSpec == Init /\ [][SignNext]_vars

----------------------------------------------------------------------------
(* What a step of Call did, read off the step *)

CallStep == Len(calls') = Len(calls) + 1
TheCall == calls'[Len(calls')]
TheCacheKey == CacheKey(TheCall.host, TheCall.spaceId, TheCall.environmentId)
Found == assetKeyCache[TheCacheKey]          \* the item the call found installed
StartedFetch ==
    /\ Len(items') = Len(items) + 1
    /\ \A i \in DOMAIN items : items'[i] = items[i]
    /\ items'[Len(items')].state = "pending"
    /\ items'[Len(items')].cacheKey = TheCacheKey
    /\ assetKeyCache' = [assetKeyCache EXCEPT ![TheCacheKey] = Len(items')]
    /\ TheCall.item = Len(items')
    /\ TheCall.started

ItemsOf(k) == {i \in DOMAIN items : items[i].cacheKey = k}
InFlightOf(k) == {i \in ItemsOf(k) : items[i].state = "pending"}
Handed(i) == {c \in DOMAIN calls : calls[c].item = i}
Failed(i) == items[i].status # 0 /\ ~ResponseOk(items[i].status)

----------------------------------------------------------------------------
\* C1: a caller handed a cache item's promise is handed one whose item has
\* expiresAtMs >= the caller's minExpiresAtMs; and a call that finds an item
\* with expiresAtMs < minExpiresAtMs and is handed a promise is handed the
\* promise of a fetch it started, not the item it found.
C1_NeverTooShort ==
    /\ [](\A c \in DOMAIN calls :
            calls[c].item # NoItem =>
                items[calls[c].item].expiresAtMs >= calls[c].minExpiresAtMs)
    /\ [][(/\ CallStep
           /\ Found # NoItem
           /\ items[Found].expiresAtMs < TheCall.minExpiresAtMs
           /\ TheCall.item # NoItem)
          => (StartedFetch /\ TheCall.item # Found)]_vars

\* a call found a stale item and was handed a fresh one
C1_Witness ==
    \E c \in DOMAIN calls :
        /\ calls[c].started
        /\ items[calls[c].item].prior # NoItem
        /\ items[items[calls[c].item].prior].expiresAtMs < calls[c].minExpiresAtMs
        /\ items[calls[c].item].expiresAtMs >= calls[c].minExpiresAtMs

\* C2 as stated: per cache key at most one fetch is in flight.
C2_SingleFlight ==
    \A k \in CacheKeys : Cardinality(InFlightOf(k)) <= 1

\* C2, amended: of the fetches in flight for one cache key only the latest can
\* be the installed item; an earlier one is still in flight only because a call
\* whose minExpiresAtMs its item could not satisfy replaced it, so the items of
\* the fetches in flight for a key were created at strictly increasing clock
\* values and have strictly increasing expiresAtMs.
C2_OneInstalledFlight ==
    \A k \in CacheKeys : \A i, j \in InFlightOf(k) :
        i < j =>
            /\ assetKeyCache[k] # i
            /\ items[i].createdAt < items[j].createdAt
            /\ items[i].expiresAtMs < items[j].expiresAtMs
            /\ \E r \in ItemsOf(k) :
                /\ i < r /\ r <= j
                /\ items[r].prior = i
                /\ items[r].minExpiresAtMs > items[i].expiresAtMs

C2_Witness ==
    \E k \in CacheKeys : Cardinality(InFlightOf(k)) = 2 /\ assetKeyCache[k] \in InFlightOf(k)

\* C3: a call on an empty cache with minExpiresAtMs <= now + 48h starts one
\* fetch; while that fetch is in flight and installed, every call for the key
\* with minExpiresAtMs <= (that now) + 48h starts none and is handed the same
\* item; and all callers handed one item resolve to its one credential.
C3_Coalesced ==
    /\ [][(CallStep /\ Found = NoItem
                    /\ TheCall.minExpiresAtMs <= now + MaxValidityMs)
          => (StartedFetch /\ items'[Len(items')].expiresAtMs = now + MaxValidityMs)]_vars
    /\ [][(/\ CallStep
           /\ Found # NoItem
           /\ items[Found].state = "pending"
           /\ items[Found].prior = NoItem
           /\ TheCall.minExpiresAtMs <= items[Found].createdAt + MaxValidityMs)
          => (items' = items /\ TheCall.item = Found /\ ~TheCall.started)]_vars
    /\ [](\A c \in DOMAIN calls :
            calls[c].state = "credential" =>
                /\ items[calls[c].item].state = "resolved"
                /\ calls[c].policy = items[calls[c].item].policy
                /\ calls[c].secret = items[calls[c].item].secret)

\* the scenario: minimums now+1000 and now+2000, one fetch, item at now+48h
C3_Witness ==
    \E c, d \in DOMAIN calls :
        /\ c # d
        /\ calls[c].item # NoItem
        /\ calls[c].item = calls[d].item
        /\ LET i == calls[c].item IN
            /\ items[i].state = "pending"
            /\ ItemsOf(items[i].cacheKey) = {i}
            /\ calls[c].started
            /\ calls[c].minExpiresAtMs = items[i].createdAt + 1000
            /\ calls[d].minExpiresAtMs = items[i].createdAt + 2000
            /\ items[i].expiresAtMs = items[i].createdAt + MaxValidityMs
            /\ calls[c].state = "waiting" /\ calls[d].state = "waiting"

\* A step of the .catch handler of item i
CatchStep(i) ==
    /\ i \in DOMAIN items
    /\ items[i].state = "failed"
    /\ items'[i].state # "failed"

\* C4: when a fetch fails, the cache entry of its key is removed iff the item
\* installed there is the very item this fetch installed; a newer item for the
\* key, pending or resolved, is left installed, and no other key is touched.
C4_CompareAndDelete ==
    [][\A i \in 1..MaxCalls : CatchStep(i) =>
        LET k == items[i].cacheKey IN
            /\ assetKeyCache[k] = i => assetKeyCache'[k] = NoItem
            /\ assetKeyCache[k] # i => assetKeyCache'[k] = assetKeyCache[k]
            /\ \A other \in CacheKeys \ {k} : assetKeyCache'[other] = assetKeyCache[other]
      ]_vars

\* an older fetch failed after a newer item, already resolved, was installed
C4_Witness ==
    \E i, j \in DOMAIN items :
        /\ i < j
        /\ items[i].cacheKey = items[j].cacheKey
        /\ items[i].state = "rejected"
        /\ items[j].state = "resolved"
        /\ items[j].prior = i
        /\ assetKeyCache[items[j].cacheKey] = j

\* C5: a call that finds an item with expiresAtMs >= its minExpiresAtMs starts
\* no fetch, leaves the cache as it is and returns that item's own promise,
\* pending or settled.
C5_CacheHit ==
    [][(/\ CallStep
        /\ Found # NoItem
        /\ items[Found].expiresAtMs >= TheCall.minExpiresAtMs)
       => (/\ items' = items
           /\ assetKeyCache' = assetKeyCache
           /\ TheCall.item = Found
           /\ ~TheCall.started
           /\ TheCall.state = "waiting")]_vars

\* a call joined an item whose minimum equals the item's expiry exactly, and
\* the item's promise is resolved
C5_Witness ==
    \E c \in DOMAIN calls :
        /\ ~calls[c].started
        /\ calls[c].item # NoItem
        /\ calls[c].minExpiresAtMs = items[calls[c].item].expiresAtMs
        /\ items[calls[c].item].state = "resolved"

\* C6: a call with minExpiresAtMs > now + 48h throws; no request is sent and
\* the cache, any item installed for the key included, stays as it is.
C6_OutOfRange ==
    [][(CallStep /\ TheCall.minExpiresAtMs > now + MaxValidityMs)
       => (/\ TheCall.state = "threw"
           /\ TheCall.item = NoItem
           /\ ~TheCall.started
           /\ items' = items
           /\ assetKeyCache' = assetKeyCache)]_vars

\* a call threw while an item was installed for its key
C6_Witness ==
    \E c \in DOMAIN calls :
        /\ calls[c].state = "threw"
        /\ assetKeyCache[CacheKey(calls[c].host, calls[c].spaceId,
                                  calls[c].environmentId)] # NoItem

\* call c was handed the promise of a fetch that has failed
HandedFailed(c) ==
    IF c \in DOMAIN calls
    THEN IF calls[c].item # NoItem THEN Failed(calls[c].item) ELSE FALSE
    ELSE FALSE

SawError(c) == IF c \in DOMAIN calls THEN calls[c].state = "error" ELSE FALSE

\* C7: every caller handed the promise of a fetch that failed observes that
\* fetch's error: until then it waits, never with a credential, and it is not
\* left waiting (what a caller has observed stays observed, so "again and again
\* every such caller has observed the error" says each of them comes to).
C7_FailureReachesWaiters ==
    /\ [](\A c \in DOMAIN calls :
            (calls[c].item # NoItem /\ Failed(calls[c].item)) =>
                /\ calls[c].state \in {"waiting", "error"}
                /\ calls[c].state = "error" =>
                       calls[c].error = <<calls[c].item, items[calls[c].item].status>>)
    /\ []<>(\A c \in DOMAIN calls : HandedFailed(c) => SawError(c))

\* the caller that started a failed fetch and a caller that joined it have both
\* observed its error
C7_Witness ==
    \E c, d \in DOMAIN calls :
        /\ c # d
        /\ calls[c].item = calls[d].item
        /\ calls[c].state = "error" /\ calls[d].state = "error"
        /\ calls[c].error = calls[d].error
        /\ calls[c].started /\ ~calls[d].started

\* the latest item created for key k
LastItemOf(k) == CHOOSE i \in ItemsOf(k) : \A j \in ItemsOf(k) : j <= i

\* C8: once the latest fetch for a key has failed and its promise is rejected,
\* the item is gone from the cache, and the next call for the key with
\* minExpiresAtMs <= now + 48h starts exactly one new fetch.
C8_RetryAfterFailure ==
    /\ [](\A k \in CacheKeys :
            (ItemsOf(k) # {} /\ items[LastItemOf(k)].state = "rejected")
                => assetKeyCache[k] = NoItem)
    /\ [][(/\ CallStep
           /\ ItemsOf(TheCacheKey) # {}
           /\ Failed(LastItemOf(TheCacheKey))
           /\ items[LastItemOf(TheCacheKey)].state # "failed"
           /\ TheCall.minExpiresAtMs <= now + MaxValidityMs)
          => StartedFetch]_vars

\* a call after a failed fetch was handed a new, pending item
C8_Witness ==
    \E i, j \in DOMAIN items :
        /\ i < j
        /\ items[i].cacheKey = items[j].cacheKey
        /\ items[i].state = "rejected"
        /\ items[j].prior = NoItem
        /\ items[j].state = "pending"
        /\ assetKeyCache[items[j].cacheKey] = j

\* C9 as stated: the item's expiresAtMs and the expiry sent to the endpoint
\* both equal the clock value at creation + 48h.
C9_ExpiryIsNowPlus48h ==
    \A i \in DOMAIN items :
        /\ items[i].expiresAtMs = items[i].createdAt + MaxValidityMs
        /\ items[i].expiresAt * MsPerSecond = items[i].createdAt + MaxValidityMs

\* C9, amended: the item's expiresAtMs equals the clock value at creation +
\* 48h, and the expiry sent to the endpoint is that instant in whole seconds,
\* rounded down; neither depends on the caller's minExpiresAtMs.
C9_ExpiryIsNowPlus48hFloored ==
    \A i \in DOMAIN items :
        /\ items[i].expiresAtMs = items[i].createdAt + MaxValidityMs
        /\ items[i].expiresAt * MsPerSecond <= items[i].createdAt + MaxValidityMs
        /\ items[i].createdAt + MaxValidityMs < (items[i].expiresAt + 1) * MsPerSecond

\* an item created off a whole second by a caller that asked for less than 48h
C9_Witness ==
    \E i \in DOMAIN items :
        /\ items[i].minExpiresAtMs < items[i].expiresAtMs
        /\ items[i].expiresAtMs % MsPerSecond # 0

\* C10 as stated: calls whose scope tuples differ never share an item, and a
\* call is only ever handed an item fetched for its own scope tuple.
C10_ScopesIsolated ==
    \A c \in DOMAIN calls :
        calls[c].item # NoItem =>
            LET i == calls[c].item IN
                <<items[i].host, items[i].spaceId, items[i].environmentId>>
                    = <<calls[c].host, calls[c].spaceId, calls[c].environmentId>>

C17_NoRejectedInCache ==
    /\ \A k \in CacheKeys :
            assetKeyCache[k] # NoItem => items[assetKeyCache[k]].state # "rejected"
    /\ \A c \in DOMAIN calls :
            calls[c].state = "error" =>
                assetKeyCache[items[calls[c].item].cacheKey] # calls[c].item
    /\ \A c \in DOMAIN calls :
            (calls[c].item # NoItem /\ calls[c].state = "waiting"
                /\ items[calls[c].item].state = "rejected")
            => assetKeyCache[items[calls[c].item].cacheKey] # calls[c].item

\* a fetch was rejected, its key is empty and its caller has not yet observed it
C17_Witness ==
    \E c \in DOMAIN calls :
        /\ calls[c].item # NoItem
        /\ calls[c].state = "waiting"
        /\ items[calls[c].item].state = "rejected"
        /\ assetKeyCache[items[calls[c].item].cacheKey] = NoItem

\* C18: an item that replaces an installed item has a strictly greater
\* expiresAtMs, and the expiresAtMs of the item installed for a key never
\* decreases from one installed item to the next.
C18_ExpiryGrows ==
    /\ [][\A k \in CacheKeys :
            (/\ assetKeyCache[k] # NoItem
             /\ assetKeyCache'[k] # NoItem
             /\ assetKeyCache'[k] # assetKeyCache[k])
            => items'[assetKeyCache'[k]].expiresAtMs > items[assetKeyCache[k]].expiresAtMs]_vars
    /\ [](\A i, j \in DOMAIN items :
            (i < j /\ items[i].cacheKey = items[j].cacheKey)
                => items[i].expiresAtMs <= items[j].expiresAtMs)

\* an installed item replaced an item that expires earlier
C18_Witness ==
    \E j \in DOMAIN items :
        /\ items[j].prior # NoItem
        /\ assetKeyCache[items[j].cacheKey] = j
        /\ items[j].expiresAtMs > items[items[j].prior].expiresAtMs

\* C20: when every request is answered, every call completes, with a
\* credential or an error (what a call has completed with stays, so "again and
\* again no call is waiting" says every call completes).
C20_EveryCallCompletes ==
    []<>(\A c \in DOMAIN calls : calls[c].state # "waiting")

\* the caller of an item that was replaced and then failed has got its error
C20_Witness ==
    \E c \in DOMAIN calls : \E j \in DOMAIN items :
        /\ calls[c].state = "error"
        /\ items[j].prior = calls[c].item
        /\ calls[c].item # NoItem

----------------------------------------------------------------------------
(* The token and the asset key it is signed with *)

\* C19: the exp of the token signUrl returns, floor(expiresAtMs / 1000), is
\* never later than the expiresAt, in seconds, that was asked of the asset_keys
\* endpoint for the asset key the token is signed with.
C19_TokenWithinKey ==
    \A c \in DOMAIN calls :
        calls[c].state = "credential" =>
            /\ calls[c].signed.token.key = items[calls[c].item].secret
            /\ calls[c].signed.token.payload.exp
                    = << calls[c].minExpiresAtMs \div MsPerSecond >>
            /\ calls[c].signed.token.payload.exp[1] <= items[calls[c].item].expiresAt

\* a caller joined a later fetch's item and its token expires before the key
C19_Witness ==
    \E c \in DOMAIN calls :
        /\ calls[c].state = "credential"
        /\ ~calls[c].started
        /\ calls[c].signed.token.payload.exp[1] < items[calls[c].item].expiresAt

----------------------------------------------------------------------------
(* generateSignedToken and generateSignedUrl on their own *)

\* the runs that returned a URL
Returned == {r \in DOMAIN runs : ~runs[r].threw}

IsOther(param) == param[1] \notin {"token", "policy"}

Named(searchParams, name) ==
    {i \in DOMAIN searchParams : searchParams[i][1] = name}

\* C11: the URL generateSignedUrl returns has the origin and path of the
\* input, every query parameter of the input named neither token nor policy,
\* with the same values in the same order, and exactly one token parameter,
\* the token just signed, and exactly one policy parameter, the asset key's
\* policy, whatever token and policy parameters the input had.
C11_QueryPreserved ==
    \A r \in Returned :
        LET input == ParseQuery(runs[r].url.query)
            output == ParseQuery(runs[r].signedUrl.query)
        IN  /\ runs[r].signedUrl.origin = runs[r].url.origin
            /\ runs[r].signedUrl.pathname = runs[r].url.pathname
            /\ SelectSeq(output, IsOther) = SelectSeq(input, IsOther)
            /\ Cardinality(Named(output, "token")) = 1
            /\ Cardinality(Named(output, "policy")) = 1
            /\ \A i \in Named(output, "token") :
                    output[i][2] = JwtText(runs[r].token)
            /\ \A i \in Named(output, "policy") :
                    output[i][2] = ToString(runs[r].policy)

\* a URL with two token parameters between other parameters was signed
C11_Witness ==
    \E r \in Returned :
        LET input == ParseQuery(runs[r].url.query)
        IN  /\ Cardinality(Named(input, "token")) = 2
            /\ Len(SelectSeq(input, IsOther)) = 2
            /\ Len(runs[r].signedUrl.query) = 4

\* C12: the subject generateSignedUrl signs is the origin and path of the
\* input URL without its query, so two URLs that differ only in their query
\* are signed with the same subject and, with the same secret and expiry, with
\* the same key and exp.
C12_SubjectWithoutQuery ==
    /\ \A r \in DOMAIN runs :
            runs[r].token.payload.sub = runs[r].url.origin \o runs[r].url.pathname
    /\ \A r1, r2 \in DOMAIN runs :
            /\ runs[r1].url.origin = runs[r2].url.origin
            /\ runs[r1].url.pathname = runs[r2].url.pathname
            => /\ runs[r1].token.payload.sub = runs[r2].token.payload.sub
               /\ /\ runs[r1].secret = runs[r2].secret
                  /\ runs[r1].expiresAtMs = runs[r2].expiresAtMs
                  => /\ runs[r1].token.key = runs[r2].token.key
                     /\ runs[r1].token.payload.exp = runs[r2].token.payload.exp

\* two URLs of one path and different queries were signed
C12_Witness ==
    \E r1, r2 \in Returned :
        /\ runs[r1].url.pathname = runs[r2].url.pathname
        /\ runs[r1].url.query # runs[r2].url.query
        /\ runs[r1].url.query # << >>
        /\ runs[r1].secret = runs[r2].secret
        /\ runs[r1].expiresAtMs = runs[r2].expiresAtMs

\* C13: for every expiresAtMs passed to generateSignedToken, the exp of the
\* payload is floor(expiresAtMs / 1000) and its sub is the URL it was given.
C13_ExpIsFloor ==
    \A r \in DOMAIN runs :
        /\ runs[r].token.payload.exp = << runs[r].expiresAtMs \div MsPerSecond >>
        /\ runs[r].token.payload.sub = runs[r].url.origin \o runs[r].url.pathname

----------------------------------------------------------------------------
(* The sign-and-redirect route *)

Answered(r) == Len(reqs[r].responses) = 1

C16_Responses ==
    /\ Cardinality({r \in DOMAIN reqs : reqs[r].call # 0}) = Len(calls)
    /\ \A r \in DOMAIN reqs :
        /\ Len(reqs[r].responses) <= 1
        /\ IF reqs[r].spaceId # SPACE_ID
           THEN /\ reqs[r].call = 0
                /\ Answered(r)
                /\ reqs[r].responses[1].status = 404
           ELSE /\ reqs[r].call \in DOMAIN calls
                /\ Answered(r) =>
                    LET call == calls[reqs[r].call]
                        response == reqs[r].responses[1]
                    IN  /\ call.state # "waiting"
                        /\ response.status \in {302, 500}
                        /\ response.status = 302 <=> call.state = "credential"
                        /\ response.status = 302
                                => response.location = << call.signed.url >>
                        /\ response.status = 500 => response.location = << >>

\* C16: every request the sign-and-redirect route handles ends in exactly one
\* response: 404, with signUrl not called, when the spaceId of the path is not
\* the configured space; 500 when signUrl failed; a redirect to the signed URL
\* only when signUrl succeeded.
C16_OneResponse ==
    /\ []C16_Responses
    /\ []<>(\A r \in DOMAIN reqs : Answered(r))

\* one request was redirected and another was answered with 500
C16_Witness ==
    /\ \E r \in DOMAIN reqs : Answered(r) /\ reqs[r].responses[1].status = 302
    /\ \E r \in DOMAIN reqs : Answered(r) /\ reqs[r].responses[1].status = 500

====
